---- MODULE Spec2Model ----
(***************************************************************************)
(* Operator collections of qiskit_dynamics/models/operator_collections.py  *)
(* (DenseOperatorCollection, SparseOperatorCollection,                     *)
(* DenseLindbladCollection, DenseVectorizedLindbladCollection,             *)
(* SparseLindbladCollection) as a state machine over exact complex         *)
(* rational arithmetic.                                                    *)
(*                                                                         *)
(* A number is a triple <<a, b, d>> standing for (a + b*i)/d, with d > 0   *)
(* and gcd(a, b, d) = 1, so that equal numbers are equal values.  Arrays   *)
(* are nested tuples, as numpy arrays are nested sequences; a sparse       *)
(* matrix is modelled by the matrix it denotes.                            *)
(***************************************************************************)
EXTENDS Integers, Sequences, FiniteSets, TLC

(***************************************************************************)
(* Bounds of the model.                                                    *)
(***************************************************************************)
Dim == 2          \* n: every operator is Dim x Dim
MaxOps == 2       \* k: at most this many (Hamiltonian) operators
MaxDiss == 2      \* m: at most this many dissipator operators
MaxBatch == 2     \* b: at most this many states in a batch
MaxDecimals == 1  \* the `decimals` argument ranges over 0..MaxDecimals

(***************************************************************************)
(* Exact complex rationals.                                                *)
(***************************************************************************)
Abs(x) == IF x < 0 THEN -x ELSE x

RECURSIVE GCD(_, _)
GCD(a, b) == IF b = 0 THEN a ELSE GCD(b, a % b)

Norm(a, b, d) ==
  LET g == GCD(GCD(Abs(a), Abs(b)), d)
  IN  <<a \div g, b \div g, d \div g>>

Q(a, d) == Norm(a, 0, d)          \* the real number a/d
QI(b, d) == Norm(0, b, d)         \* the imaginary number (b/d)*i
Zero == <<0, 0, 1>>
One == <<1, 0, 1>>
MinusI == <<0, -1, 1>>
MinusHalf == <<-1, 0, 2>>

\* every number is kept in lowest terms, so Zero is the only zero
CAdd(x, y) ==
  IF y = Zero THEN x
  ELSE IF x = Zero THEN y
  ELSE Norm(x[1] * y[3] + y[1] * x[3], x[2] * y[3] + y[2] * x[3], x[3] * y[3])
CNeg(x) == <<-x[1], -x[2], x[3]>>
CSub(x, y) == CAdd(x, CNeg(y))
CMul(x, y) ==
  IF x = Zero \/ y = Zero THEN Zero
  ELSE IF x = One THEN y
  ELSE IF y = One THEN x
  ELSE Norm(x[1] * y[1] - x[2] * y[2], x[1] * y[2] + x[2] * y[1], x[3] * y[3])
CConj(x) == <<x[1], -x[2], x[3]>>

RECURSIVE Pow10(_)
Pow10(e) == IF e = 0 THEN 1 ELSE 10 * Pow10(e - 1)

\* numpy.rint on the rational p/q (q > 0): nearest integer, ties to even.
Rint(p, q) ==
  LET f == p \div q
      r == p % q
  IN  IF 2 * r < q THEN f
      ELSE IF 2 * r > q THEN f + 1
      ELSE IF f % 2 = 0 THEN f ELSE f + 1

\* numpy.round(x, decimals) on one number: real and imaginary part apart,
\* each scaled by 10^decimals, rounded by rint and scaled back.
RoundNum(x, decimals) ==
  LET s == Pow10(decimals)
  IN  Norm(Rint(x[1] * s, x[3]), Rint(x[2] * s, x[3]), s)

(***************************************************************************)
(* numpy arrays as nested tuples: a vector is a tuple of numbers, a matrix *)
(* a tuple of rows, a 3-d array a tuple of matrices.                       *)
(***************************************************************************)
\* the tuple <<f(1), ..., f(n)>>
RECURSIVE Tab(_, _)
Tab(f(_), n) == IF n = 0 THEN <<>> ELSE Append(Tab(f, n - 1), f(n))

RECURSIVE SumNums(_)
SumNums(xs) == IF xs = <<>> THEN Zero ELSE CAdd(Head(xs), SumNums(Tail(xs)))

ZeroMat == Tab(LAMBDA i: Tab(LAMBDA j: Zero, Dim), Dim)
MatAdd(A, B) == Tab(LAMBDA i: Tab(LAMBDA j: CAdd(A[i][j], B[i][j]), Len(A[i])), Len(A))
MatSub(A, B) == Tab(LAMBDA i: Tab(LAMBDA j: CSub(A[i][j], B[i][j]), Len(A[i])), Len(A))
MatScale(c, A) == Tab(LAMBDA i: Tab(LAMBDA j: CMul(c, A[i][j]), Len(A[i])), Len(A))
MatNeg(A) == Tab(LAMBDA i: Tab(LAMBDA j: CNeg(A[i][j]), Len(A[i])), Len(A))
\* numpy.matmul / numpy.dot of two matrices
MatMul(A, B) ==
  Tab(LAMBDA i: Tab(LAMBDA j: SumNums(Tab(LAMBDA l: CMul(A[i][l], B[l][j]), Len(B))),
                    Len(B[1])),
      Len(A))
\* numpy.dot of a matrix and a vector
MatVec(A, v) == Tab(LAMBDA i: SumNums(Tab(LAMBDA l: CMul(A[i][l], v[l]), Len(v))), Len(A))
VecAdd(u, v) == Tab(LAMBDA i: CAdd(u[i], v[i]), Len(u))
VecScale(c, v) == Tab(LAMBDA i: CMul(c, v[i]), Len(v))
\* numpy.conjugate(numpy.transpose(A)) of one matrix
ConjTranspose(A) == Tab(LAMBDA i: Tab(LAMBDA j: CConj(A[j][i]), Len(A)), Len(A[1]))
\* numpy.round(A, decimals) of one matrix
RoundMat(A, decimals) ==
  Tab(LAMBDA i: Tab(LAMBDA j: RoundNum(A[i][j], decimals), Len(A[i])), Len(A))

\* sum_j s[j] * ops[j] over the first Len(ops) entries of s (the contraction
\* numpy.tensordot(s, ops, axes=1) performs when the lengths agree)
RECURSIVE LinComb(_, _)
LinComb(s, ops) ==
  IF Len(ops) = 1 THEN MatScale(s[1], ops[1])
  ELSE MatAdd(LinComb(SubSeq(s, 1, Len(ops) - 1), SubSeq(ops, 1, Len(ops) - 1)),
              MatScale(s[Len(ops)], ops[Len(ops)]))

RECURSIVE SumMats(_)
SumMats(ms) ==
  IF Len(ms) = 1 THEN ms[1] ELSE MatAdd(SumMats(SubSeq(ms, 1, Len(ms) - 1)), ms[Len(ms)])

(***************************************************************************)
(* Input sets: operators, drifts, dissipators, signal values and states    *)
(* the caller passes.  Each is written for any Dim; with Dim = 2 they are  *)
(* the matrices named in the comments.                                     *)
(***************************************************************************)
Mat(f(_, _)) == Tab(LAMBDA i: Tab(LAMBDA j: f(i, j), Dim), Dim)

\* [[0,1],[1,0]]
PauliX == Mat(LAMBDA i, j: IF i + j = Dim + 1 THEN One ELSE Zero)
\* [[1,0],[0,-1]]
PauliZ == Mat(LAMBDA i, j: IF i # j THEN Zero ELSE IF i % 2 = 1 THEN One ELSE CNeg(One))
\* [[1/4,-i],[i,3/2]]: Hermitian, with entries numpy.round changes
OpFrac ==
  Mat(LAMBDA i, j: IF i = j THEN (IF i % 2 = 1 THEN Q(1, 4) ELSE Q(3, 2))
                   ELSE IF j = i + 1 THEN MinusI
                   ELSE IF i = j + 1 THEN CNeg(MinusI) ELSE Zero)
\* [[1/4,1/2],[0,3/2]]
DriftFrac ==
  Mat(LAMBDA i, j: IF i = j THEN (IF i % 2 = 1 THEN Q(1, 4) ELSE Q(3, 2))
                   ELSE IF j = i + 1 THEN Q(1, 2) ELSE Zero)
\* [[0,1],[0,0]]
SigmaMinus == Mat(LAMBDA i, j: IF j = i + 1 THEN One ELSE Zero)
\* [[1/2,0],[i,0]]: complex and not normal
DissFrac ==
  Mat(LAMBDA i, j: IF j # 1 THEN Zero ELSE IF i = 1 THEN Q(1, 2) ELSE CNeg(MinusI))
\* [[1,0],[0,0]]
Rho1 == Mat(LAMBDA i, j: IF i = 1 /\ j = 1 THEN One ELSE Zero)
\* [[1/2,i],[2,1/2]]: neither Hermitian nor symmetric
Rho2 ==
  Mat(LAMBDA i, j: IF i = j THEN Q(1, 2) ELSE IF i < j THEN CNeg(MinusI) ELSE Q(2, 1))
\* [1,0] and [i,1/2]
Vec1 == Tab(LAMBDA i: IF i = 1 THEN One ELSE Zero, Dim)
Vec2 == Tab(LAMBDA i: IF i = 1 THEN CNeg(MinusI) ELSE Q(1, 2), Dim)

OpList == <<PauliX, OpFrac>>
DissList == <<SigmaMinus, DissFrac>>
RhoList == <<Rho1, Rho2>>
VecList == <<Vec1, Vec2>>
SigList == <<One, Q(1, 2)>>

\* the n entries of the cyclic list xs that start at position st
Window(xs, st, n) == Tab(LAMBDA i: xs[((st + i - 2) % Len(xs)) + 1], n)
Prefixes(xs, maxlen) == {Window(xs, 1, n) : n \in 1..maxlen}

None == <<>>                       \* Python's None, where an array is expected
OperatorChoices == Prefixes(OpList, MaxOps)
DriftChoices == {None, ZeroMat, DriftFrac}
\* the drifts assigned to a collection after its construction
AssignedDrifts == DriftChoices \cup {PauliZ}
DissipatorChoices == {None} \cup Prefixes(DissList, MaxDiss)
ZeroSignal(n) == Tab(LAMBDA i: Zero, n)
\* signal vectors of length n: windows of SigList and the zero vector
SignalsOfLen(n) == {Window(SigList, st, n) : st \in 1..Len(SigList)} \cup {ZeroSignal(n)}
\* pairs [s_H, s_L] of k Hamiltonian and m dissipator signal values
SignalPairs(k, m) ==
  {<<Window(SigList, st, k), Window(SigList, st, m)>> : st \in 1..Len(SigList)}
    \cup {<<ZeroSignal(k), Window(SigList, 1, m)>>, <<Window(SigList, 1, k), ZeroSignal(m)>>}

(***************************************************************************)
(* Objects.  A collection instance is its class (kind) and its attribute   *)
(* dictionary d: each attribute holds a reference into the heap, NoneRef   *)
(* when it holds None, Unset when the attribute was never assigned.  ops   *)
(* stands for _operators (operator collections) and for                    *)
(* _hamiltonian_operators (Lindblad collections), diss, conj and prod for  *)
(* _dissipator_operators, _dissipator_operators_conj and                   *)
(* _dissipator_products.  decimals records the constructor argument, which *)
(* the code does not keep (-1 for a dense collection).  form is the type   *)
(* of the object _drift refers to; the evaluations are modelled by the     *)
(* matrix that object denotes.                                             *)
(***************************************************************************)
Unset == -1
NoneRef == 0
AttrOrder == <<"ops", "drift", "diss", "conj", "prod">>
Attrs == {AttrOrder[i] : i \in 1..Len(AttrOrder)}
Cells == 1..(2 * Len(AttrOrder) + 1)

Kinds == {"DenseOperatorCollection", "SparseOperatorCollection",
          "DenseLindbladCollection", "DenseVectorizedLindbladCollection",
          "SparseLindbladCollection"}
SparseKinds == {"SparseOperatorCollection", "SparseLindbladCollection"}
LindbladKinds == {"DenseLindbladCollection", "SparseLindbladCollection"}

\* the types a drift can have
Forms == {"ndarray", "csr_matrix"}
NoObj ==
  [kind |-> "none", d |-> [a \in Attrs |-> Unset], decimals |-> -1, form |-> "none"]

\* what a call returns (an array v of nd dimensions; nd = 0 for a count or
\* a pair of counts) or the exception it raises
Ok(nd, v) == [ok |-> TRUE, err |-> "", nd |-> nd, v |-> v]
Raise(e) == [ok |-> FALSE, err |-> e, nd |-> 0, v |-> None]

\* the state argument y: a numpy array of nd dimensions, or None (nd = 0)
Arr(nd, val) == [nd |-> nd, val |-> val]
YNone == Arr(0, None)

(***************************************************************************)
(* DenseOperatorCollection                                                 *)
(***************************************************************************)
DenseOperatorCollection_num_operators(h, o) == Ok(0, <<Len(h[o.d.ops])>>)

\* a variant that leaves the drift out
DenseOperatorCollection_evaluate_generator_without_drift(h, o, signal_values) ==
  IF Len(signal_values) # Len(h[o.d.ops]) THEN Raise("ValueError")
  ELSE Ok(2, LinComb(signal_values, h[o.d.ops]))

DenseOperatorCollection_evaluate_generator(h, o, signal_values) ==
  IF Len(signal_values) # Len(h[o.d.ops]) THEN Raise("ValueError")
  ELSE IF o.d.drift = NoneRef THEN Ok(2, LinComb(signal_values, h[o.d.ops]))
  ELSE Ok(2, MatAdd(LinComb(signal_values, h[o.d.ops]), h[o.d.drift]))

\* numpy.dot(G, y): y a vector, or a matrix whose columns are states
DenseOperatorCollection_evaluate_rhs(h, o, signal_values, y) ==
  LET gen == DenseOperatorCollection_evaluate_generator(h, o, signal_values)
  IN  IF ~gen.ok THEN gen
      ELSE IF y.nd = 1 THEN Ok(1, MatVec(gen.v, y.val))
      ELSE Ok(2, MatMul(gen.v, y.val))

(***************************************************************************)
(* SparseOperatorCollection                                                *)
(***************************************************************************)
SparseOperatorCollection_num_operators(h, o) == Ok(0, <<Len(h[o.d.ops])>>)

SparseOperatorCollection_evaluate_generator(h, o, signal_values) ==
  IF Len(signal_values) # Len(h[o.d.ops]) THEN Raise("ValueError")
  ELSE IF o.d.drift = NoneRef THEN Ok(2, LinComb(signal_values, h[o.d.ops]))
  ELSE Ok(2, MatAdd(LinComb(signal_values, h[o.d.ops]), h[o.d.drift]))

\* a variant whose vector path leaves out the drift term
SparseOperatorCollection_evaluate_rhs_without_drift(h, o, signal_values, y) ==
  LET gen == SparseOperatorCollection_evaluate_generator(h, o, signal_values)
  IN  IF ~gen.ok THEN gen
      ELSE IF y.nd = 1 THEN Ok(1, MatVec(LinComb(signal_values, h[o.d.ops]), y.val))
      ELSE Ok(2, MatMul(gen.v, y.val))

SparseOperatorCollection_evaluate_rhs(h, o, signal_values, y) ==
  LET ops == h[o.d.ops]
  IN  IF Len(signal_values) # Len(ops) THEN Raise("ValueError")
      ELSE IF y.nd = 2 THEN
        \* the generator is materialized, then multiplied
        IF o.d.drift = NoneRef THEN Raise("TypeError")
        ELSE Ok(2, MatMul(MatAdd(LinComb(signal_values, ops), h[o.d.drift]), y.val))
      ELSE
        \* y a vector: sum_j s[j] * (G_j y), plus drift y
        LET terms == Tab(LAMBDA j: VecScale(signal_values[j], MatVec(ops[j], y.val)), Len(ops))
            RECURSIVE SumVecs(_)
            SumVecs(n) == IF n = 1 THEN terms[1] ELSE VecAdd(SumVecs(n - 1), terms[n])
        IN  IF o.d.drift = NoneRef THEN Raise("AttributeError")
            ELSE Ok(1, VecAdd(SumVecs(Len(ops)), MatVec(h[o.d.drift], y.val)))

(***************************************************************************)
(* DenseLindbladCollection                                                 *)
(***************************************************************************)
DenseLindbladCollection_num_operators(h, o) ==
  IF o.d.diss = NoneRef THEN Raise("AttributeError")   \* None has no shape
  ELSE Ok(0, <<Len(h[o.d.ops]), Len(h[o.d.diss])>>)

\* a variant that does not override the method of DenseOperatorCollection
DenseLindbladCollection_evaluate_generator_inherited(h, o, signal_values) ==
  DenseOperatorCollection_evaluate_generator(h, o, signal_values[1])

DenseLindbladCollection_evaluate_generator(h, o, signal_values) == Raise("ValueError")

DenseLindbladCollection_evaluate_hamiltonian(h, o, signal_values) ==
  IF Len(signal_values) # Len(h[o.d.ops]) THEN Raise("ValueError")
  ELSE IF o.d.drift = NoneRef THEN Raise("TypeError")   \* array + None
  ELSE Ok(2, MatAdd(LinComb(signal_values, h[o.d.ops]), h[o.d.drift]))

\* numpy broadcasting of two extents
Compatible(a, b) == a = b \/ a = 1 \/ b = 1
Extent(a, b) == IF a > b THEN a ELSE b
Pick(i, n) == IF n = 1 THEN 1 ELSE i

\* numpy.dot(B, y) - numpy.dot(y, B) for a matrix B and a 3-d array y of
\* shape (b,n,n): the first product has shape (n,b,n), element [p,q,k] =
\* (B y[q])[p,k]; the second has shape (b,n,n), element [q,p,k] =
\* (y[q] B)[p,k]; the subtraction broadcasts the two shapes or fails.
DotMinusDot3(B, y) ==
  LET n == Len(B)
      b == Len(y)
      By == Tab(LAMBDA q: MatMul(B, y[q]), b)
      yB == Tab(LAMBDA q: MatMul(y[q], B), b)
      first == Tab(LAMBDA p: Tab(LAMBDA q: By[q][p], b), n)
      second == yB
  IN  IF ~Compatible(n, b) THEN Raise("ValueError")
      ELSE Ok(3, Tab(LAMBDA p: Tab(LAMBDA q: Tab(LAMBDA k:
                    CSub(first[Pick(p, n)][Pick(q, b)][k],
                         second[Pick(p, b)][Pick(q, n)][k]), n), Extent(b, n)),
                     Extent(n, b)))

\* a variant with the two dissipator factors exchanged
JumpTerm_exchanged(gamma, L, Lconj, y) ==
  LinComb(gamma, Tab(LAMBDA j: MatMul(Lconj[j], MatMul(y, L[j])), Len(L)))

\* C for one state: sum_j gamma[j] * L_j y Lconj_j
JumpTerm(gamma, L, Lconj, y) ==
  LinComb(gamma, Tab(LAMBDA j: MatMul(L[j], MatMul(y, Lconj[j])), Len(L)))

DenseLindbladCollection_evaluate_rhs(h, o, signal_values, y) ==
  LET ham == DenseLindbladCollection_evaluate_hamiltonian(h, o, signal_values[1])
  IN  IF ~ham.ok THEN ham
      ELSE
        LET hamiltonian_matrix == MatScale(MinusI, ham.v)            \* B
        IN  IF o.d.diss # NoneRef THEN
              IF Len(signal_values[2]) # Len(h[o.d.prod]) THEN Raise("ValueError")
              ELSE
                LET dissipators_matrix ==                            \* A
                      MatScale(MinusHalf, LinComb(signal_values[2], h[o.d.prod]))
                    lmat == MatAdd(hamiltonian_matrix, dissipators_matrix)
                    rmat == MatAdd(MatNeg(hamiltonian_matrix), dissipators_matrix)
                    One1(rho) ==
                      MatAdd(MatAdd(MatMul(lmat, rho), MatMul(rho, rmat)),
                             JumpTerm(signal_values[2], h[o.d.diss], h[o.d.conj], rho))
                IN  IF y.nd = 3 THEN Ok(3, Tab(LAMBDA i: One1(y.val[i]), Len(y.val)))
                    ELSE Ok(2, One1(y.val))
            ELSE IF y.nd = 3 THEN DotMinusDot3(hamiltonian_matrix, y.val)
            ELSE Ok(2, MatSub(MatMul(hamiltonian_matrix, y.val),
                              MatMul(y.val, hamiltonian_matrix)))

(***************************************************************************)
(* SparseLindbladCollection: a subclass of DenseLindbladCollection whose   *)
(* operators are 1-d object arrays of sparse matrices.                     *)
(***************************************************************************)
\* signal_values * operators for a vector and a 1-d object array: numpy
\* broadcasts the two lengths; <<>> when they cannot be broadcast.
Broadcast1(signal_values, operators) ==
  LET j == Len(signal_values)
      k == Len(operators)
  IN  IF ~Compatible(j, k) THEN <<>>
      ELSE Tab(LAMBDA l: MatScale(signal_values[Pick(l, j)], operators[Pick(l, k)]),
               Extent(j, k))

\* _hamiltonian_operators has shape (k,): shape[-3] is out of range
SparseLindbladCollection_num_operators(h, o) == Raise("IndexError")

SparseLindbladCollection_evaluate_hamiltonian(h, o, signal_values) ==
  LET terms == Broadcast1(signal_values, h[o.d.ops])
  IN  IF terms = <<>> THEN Raise("ValueError")
      ELSE IF o.d.drift = NoneRef THEN Raise("TypeError")
      ELSE Ok(2, MatAdd(SumMats(terms), h[o.d.drift]))

\* package_density_matrices: an (n,n) array becomes a (1,) object array
\* that holds it; through numpy.vectorize a (k,n,n) array becomes a (k,1)
\* object array whose entry [j,0] is y[j].
package_density_matrices(y) ==
  IF y.nd = 2 THEN [shape |-> <<1>>, m |-> <<y.val>>]
  ELSE [shape |-> <<Len(y.val), 1>>, m |-> Tab(LAMBDA j: <<y.val[j]>>, Len(y.val))]

\* the i-th matrix of a packaged state
Packed(py, i) == IF Len(py.shape) = 1 THEN py.m[i] ELSE py.m[i][1]

\* a variant that returns the first entry of the whole array for every row
unpackage_density_matrices_first(out) == Arr(3, Tab(LAMBDA j: out[1][1], Len(out)))

\* unpackage_density_matrices: each row y of a (k,1) object array becomes
\* y[0]; through numpy.vectorize the result is a (k,n,n) array
unpackage_density_matrices(out) == Arr(3, Tab(LAMBDA j: out[j][1], Len(out)))

SparseLindbladCollection_evaluate_rhs(h, o, signal_values, y) ==
  LET ham == SparseLindbladCollection_evaluate_hamiltonian(h, o, signal_values[1])
  IN  IF ~ham.ok THEN ham
      ELSE IF o.d.diss = Unset THEN Raise("AttributeError")
      ELSE
        LET hamiltonian_matrix == MatScale(MinusI, ham.v)            \* B
            py == package_density_matrices(y)
            b == py.shape[1]
        IN  IF o.d.diss # NoneRef THEN
              LET aterms == Broadcast1(signal_values[2], h[o.d.prod])
              IN  IF aterms = <<>> THEN Raise("ValueError")
                  ELSE
                    LET dissipators_matrix == MatScale(MinusHalf, SumMats(aterms))   \* A
                        lmat == MatAdd(hamiltonian_matrix, dissipators_matrix)
                        rmat == MatAdd(MatNeg(hamiltonian_matrix), dissipators_matrix)
                        gl == Broadcast1(signal_values[2], h[o.d.diss])
                        Lconj == h[o.d.conj]
                        \* sum over the dissipator axis of gamma_l L_l rho Lconj_l
                        Both(rho) ==
                          SumMats(Tab(LAMBDA l: MatMul(MatMul(gl[l], rho),
                                                       Lconj[Pick(l, Len(Lconj))]),
                                      Len(gl)))
                        One1(rho) ==
                          MatAdd(MatAdd(MatMul(lmat, rho), MatMul(rho, rmat)), Both(rho))
                    IN  IF Len(py.shape) = 1 THEN Ok(2, One1(Packed(py, 1)))
                        ELSE IF b = 1 /\ Dim > 1 THEN
                          \* numpy.squeeze turns the (1,1) products into 0-d
                          \* arrays, their sum is a bare (n,n) matrix, adding the
                          \* (1,) jump term gives an (n,n) object array, and
                          \* reshape(1, 1) of n*n elements fails
                          Raise("ValueError")
                        ELSE LET u == unpackage_density_matrices(
                                        Tab(LAMBDA i: <<One1(Packed(py, i))>>, b))
                             IN  Ok(u.nd, u.val)
            ELSE
              LET out == Tab(LAMBDA i: MatSub(MatMul(hamiltonian_matrix, Packed(py, i)),
                                              MatMul(Packed(py, i), hamiltonian_matrix)), b)
              IN  Ok(3, out)

(***************************************************************************)
(* DenseVectorizedLindbladCollection: a subclass of                        *)
(* DenseOperatorCollection.  signal_values is the list [s_H, s_L].         *)
(***************************************************************************)
\* the signal vector handed to the DenseOperatorCollection method
DenseVectorizedLindbladCollection_signals(signal_values) ==
  IF \E i \in 1..Len(signal_values[2]) : signal_values[2][i] # Zero
  THEN signal_values[1] \o signal_values[2]
  ELSE signal_values[1]

DenseVectorizedLindbladCollection_evaluate_rhs(h, o, signal_values, y) ==
  DenseOperatorCollection_evaluate_rhs(
    h, o, DenseVectorizedLindbladCollection_signals(signal_values), y)

DenseVectorizedLindbladCollection_evaluate_generator(h, o, signal_values) ==
  DenseOperatorCollection_evaluate_generator(
    h, o, DenseVectorizedLindbladCollection_signals(signal_values))

(***************************************************************************)
(* Method resolution: the method the class of o provides.                  *)
(***************************************************************************)
num_operators(h, o) ==
  CASE o.kind \in {"DenseOperatorCollection", "DenseVectorizedLindbladCollection"} ->
         DenseOperatorCollection_num_operators(h, o)
    [] o.kind = "SparseOperatorCollection" -> SparseOperatorCollection_num_operators(h, o)
    [] o.kind = "DenseLindbladCollection" -> DenseLindbladCollection_num_operators(h, o)
    [] o.kind = "SparseLindbladCollection" -> SparseLindbladCollection_num_operators(h, o)

evaluate_generator(h, o, signal_values) ==
  CASE o.kind = "DenseOperatorCollection" ->
         DenseOperatorCollection_evaluate_generator(h, o, signal_values)
    [] o.kind = "SparseOperatorCollection" ->
         SparseOperatorCollection_evaluate_generator(h, o, signal_values)
    [] o.kind \in LindbladKinds ->
         DenseLindbladCollection_evaluate_generator(h, o, signal_values)
    [] o.kind = "DenseVectorizedLindbladCollection" ->
         DenseVectorizedLindbladCollection_evaluate_generator(h, o, signal_values)

evaluate_hamiltonian(h, o, signal_values) ==
  CASE o.kind = "DenseLindbladCollection" ->
         DenseLindbladCollection_evaluate_hamiltonian(h, o, signal_values)
    [] o.kind = "SparseLindbladCollection" ->
         SparseLindbladCollection_evaluate_hamiltonian(h, o, signal_values)

evaluate_rhs(h, o, signal_values, y) ==
  CASE o.kind = "DenseOperatorCollection" ->
         DenseOperatorCollection_evaluate_rhs(h, o, signal_values, y)
    [] o.kind = "SparseOperatorCollection" ->
         SparseOperatorCollection_evaluate_rhs(h, o, signal_values, y)
    [] o.kind = "DenseLindbladCollection" ->
         DenseLindbladCollection_evaluate_rhs(h, o, signal_values, y)
    [] o.kind = "SparseLindbladCollection" ->
         SparseLindbladCollection_evaluate_rhs(h, o, signal_values, y)
    [] o.kind = "DenseVectorizedLindbladCollection" ->
         DenseVectorizedLindbladCollection_evaluate_rhs(h, o, signal_values, y)

\* a variant that ignores the state
BaseOperatorCollection_call_ignoring_state(h, o, signal_values, y) ==
  evaluate_generator(h, o, signal_values)

\* BaseOperatorCollection.__call__
BaseOperatorCollection_call(h, o, signal_values, y) ==
  IF y = YNone THEN evaluate_generator(h, o, signal_values)
  ELSE evaluate_rhs(h, o, signal_values, y)

(***************************************************************************)
(* Constructors: the attribute values __init__ assigns, or the exception   *)
(* it raises.  st[a] says whether attribute a is left unset, set to None   *)
(* or set to an array; v[a] is the array.                                  *)
(***************************************************************************)
Built(st, v) == [ok |-> TRUE, err |-> "", st |-> st, v |-> v]
Failed(e) ==
  [ok |-> FALSE, err |-> e, st |-> [a \in Attrs |-> "unset"], v |-> [a \in Attrs |-> None]]
StOf(x) == IF x = None THEN "none" ELSE "array"
ConjAll(ops) == Tab(LAMBDA j: ConjTranspose(ops[j]), Len(ops))
RoundAll(ops, decimals) == Tab(LAMBDA j: RoundMat(ops[j], decimals), Len(ops))
\* a variant with the two factors of each product exchanged
Products_exchanged(conj, ops) == Tab(LAMBDA j: MatMul(ops[j], conj[j]), Len(ops))
Products(conj, ops) == Tab(LAMBDA j: MatMul(conj[j], ops[j]), Len(ops))

DenseOperatorCollection_init(operators, drift) ==
  Built([a \in Attrs |-> IF a = "ops" THEN "array" ELSE IF a = "drift" THEN StOf(drift)
                         ELSE "unset"],
        [a \in Attrs |-> IF a = "ops" THEN operators ELSE IF a = "drift" THEN drift
                         ELSE None])

SparseOperatorCollection_init(operators, drift, decimals) ==
  IF drift = None THEN Failed("TypeError")      \* numpy.round(None, decimals)
  ELSE Built([a \in Attrs |-> IF a \in {"ops", "drift"} THEN "array" ELSE "unset"],
             [a \in Attrs |-> IF a = "ops" THEN RoundAll(operators, decimals)
                              ELSE IF a = "drift" THEN RoundMat(drift, decimals)
                              ELSE None])

DenseLindbladCollection_init(hamiltonian_operators, drift, dissipator_operators) ==
  LET conj == ConjAll(dissipator_operators)
  IN  Built([a \in Attrs |->
               IF a = "ops" THEN "array"
               ELSE IF a = "drift" THEN StOf(drift)
               ELSE IF a = "diss" THEN StOf(dissipator_operators)
               ELSE IF dissipator_operators = None THEN "unset" ELSE "array"],
            [a \in Attrs |->
               IF a = "ops" THEN hamiltonian_operators
               ELSE IF a = "drift" THEN drift
               ELSE IF a = "diss" THEN dissipator_operators
               ELSE IF dissipator_operators = None THEN None
               ELSE IF a = "conj" THEN conj
               ELSE Products(conj, dissipator_operators)])

\* vec_drift is not defined anywhere: evaluating the call's arguments fails
DenseVectorizedLindbladCollection_init(hamiltonian_operators, drift, dissipator_operators) ==
  Failed("NameError")

SparseLindbladCollection_init(hamiltonian_operators, drift, dissipator_operators, decimals) ==
  LET diss == RoundAll(dissipator_operators, decimals)
      conj == ConjAll(diss)
  IN  IF drift = None THEN Failed("TypeError")  \* numpy.round(None, decimals)
      ELSE Built([a \in Attrs |->
                    IF a \in {"ops", "drift"} THEN "array"
                    ELSE IF dissipator_operators = None THEN "unset" ELSE "array"],
                 [a \in Attrs |->
                    IF a = "ops" THEN RoundAll(hamiltonian_operators, decimals)
                    ELSE IF a = "drift" THEN RoundMat(drift, decimals)
                    ELSE IF dissipator_operators = None THEN None
                    ELSE IF a = "diss" THEN diss
                    ELSE IF a = "conj" THEN conj
                    ELSE Products(conj, diss)])

init(kind, operators, drift, dissipator_operators, decimals) ==
  CASE kind = "DenseOperatorCollection" -> DenseOperatorCollection_init(operators, drift)
    [] kind = "SparseOperatorCollection" ->
         SparseOperatorCollection_init(operators, drift, decimals)
    [] kind = "DenseLindbladCollection" ->
         DenseLindbladCollection_init(operators, drift, dissipator_operators)
    [] kind = "DenseVectorizedLindbladCollection" ->
         DenseVectorizedLindbladCollection_init(operators, drift, dissipator_operators)
    [] kind = "SparseLindbladCollection" ->
         SparseLindbladCollection_init(operators, drift, dissipator_operators, decimals)

\* the type of what the drift setter of class kind stores when it is given
\* new_drift of type form: SparseOperatorCollection converts to csr_matrix,
\* the other classes store the argument itself
drift_setter_form(kind, new_drift, form) ==
  IF kind = "SparseOperatorCollection" THEN "csr_matrix"
  ELSE IF new_drift = None THEN "None"
  ELSE form

\* the type of the drift __init__ stores for a numpy array or None:
\* SparseLindbladCollection assigns csr_matrix(np.round(drift, decimals))
init_form(kind, drift) ==
  drift_setter_form(kind, drift,
                    IF kind = "SparseLindbladCollection" THEN "csr_matrix" ELSE "ndarray")

(***************************************************************************)
(* State: the heap of arrays, the collection the caller constructed        *)
(* (orig), the collection orig.copy() returned (cp), the outcome of the    *)
(* caller's last call (res), and the frames of the threads that call orig  *)
(* at the same time (calls).                                               *)
(***************************************************************************)
VARIABLES heap, orig, cp, res, calls
vars == <<heap, orig, cp, res, calls>>

Refs(o) == {o.d[a] : a \in Attrs} \cap Cells
\* the n-th smallest cell outside used
NthFree(used, n) ==
  CHOOSE c \in Cells \ used : Cardinality({x \in Cells \ used : x <= c}) = n
\* the position of attribute a among the array-valued attributes of st
Rank(st, a) ==
  LET pos == CHOOSE i \in 1..Len(AttrOrder) : AttrOrder[i] = a
  IN  Cardinality({i \in 1..pos : st[AttrOrder[i]] = "array"})
\* the attribute dictionary that holds the arrays v in fresh cells
Place(used, st) ==
  [a \in Attrs |-> IF st[a] = "unset" THEN Unset
                   ELSE IF st[a] = "none" THEN NoneRef
                   ELSE NthFree(used, Rank(st, a))]
\* the heap once the arrays v are stored where d points and every cell no
\* object of live refers to is released
Stored(h, d, v, live) ==
  [c \in Cells |-> IF \E a \in Attrs : d[a] = c THEN v[CHOOSE a \in Attrs : d[a] = c]
                   ELSE IF c \in live THEN h[c] ELSE None]

Obj(t) == IF t = "orig" THEN orig ELSE cp
Exists(t) == Obj(t).kind # "none"
Targets == {"orig", "cp"}

Outcome(op, t, kind, args, out) ==
  [op |-> op, t |-> t, kind |-> kind, args |-> args, out |-> out]
NoOutcome == Outcome("none", "orig", "none", <<>>, Raise(""))
\* no call is in progress: the caller has taken the outcome of its last call
Idle == res = NoOutcome

\* the threads that call orig at the same time
Threads == {1, 2}
\* the frame of a thread that is in no call
NoFrame ==
  [pc |-> "idle", method |-> "none", signal_values |-> <<>>, y |-> YNone,
   ops |-> Unset, drift |-> Unset, out |-> Raise("")]
NoCalls == [frame |-> [th \in Threads |-> NoFrame], entered |-> <<>>]
AllIdle == \A th \in Threads : calls.frame[th].pc = "idle"

Init ==
  /\ heap = [c \in Cells |-> None]
  /\ orig = NoObj
  /\ cp = NoObj
  /\ res = NoOutcome
  /\ calls = NoCalls

\* orig = Kind(operators, drift, dissipator_operators, decimals)
Construct(kind, operators, drift, dissipator_operators, decimals) ==
  LET b == init(kind, operators, drift, dissipator_operators, decimals)
      d == Place({}, b.st)
  IN  /\ Idle
      /\ orig = NoObj
      /\ orig' = IF b.ok THEN [kind |-> kind, d |-> d, decimals |-> decimals,
                                form |-> init_form(kind, drift)]
                 ELSE NoObj
      /\ heap' = IF b.ok THEN Stored(heap, d, b.v, {}) ELSE heap
      /\ res' = Outcome("init", "orig", kind,
                        <<operators, drift, dissipator_operators, decimals>>,
                        IF b.ok THEN Ok(0, <<>>) ELSE Raise(b.err))
      /\ UNCHANGED <<cp, calls>>

\* copy.deepcopy(self): every array of self is duplicated into cells outside used
deepcopy(h, o, used) ==
  LET st == [a \in Attrs |-> IF o.d[a] = Unset THEN "unset"
                             ELSE IF o.d[a] = NoneRef THEN "none" ELSE "array"]
      d == Place(used, st)
  IN  [obj |-> [o EXCEPT !.d = d],
       heap |-> Stored(h, d, [a \in Attrs |-> IF st[a] = "array" THEN h[o.d[a]] ELSE None],
                       used)]

\* a variant that returns a second reference to the same arrays
BaseOperatorCollection_copy_shallow(h, o, used) == [obj |-> o, heap |-> h]

\* BaseOperatorCollection.copy
BaseOperatorCollection_copy(h, o, used) == deepcopy(h, o, used)

\* cp = orig.copy()
Copy ==
  LET r == BaseOperatorCollection_copy(heap, orig, Refs(orig))
  IN  /\ Idle
      /\ Exists("orig")
      /\ cp = NoObj
      /\ cp' = r.obj
      /\ heap' = r.heap
      /\ res' = Outcome("copy", "orig", orig.kind, <<>>, Ok(0, <<>>))
      /\ UNCHANGED <<orig, calls>>

\* the drift setter of the class of o: the value it stores, or the exception
drift_setter(o, new_drift) ==
  IF o.kind = "SparseOperatorCollection" /\ new_drift = None
  THEN Raise("TypeError")                       \* csr_matrix(None)
  ELSE Ok(2, new_drift)

\* t.drift = new_drift, with a new array new_drift of type form
SetDriftAs(t, new_drift, form) ==
  LET o == Obj(t)
      other == Obj(IF t = "orig" THEN "cp" ELSE "orig")
      r == drift_setter(o, new_drift)
      \* cells that stay referenced once t._drift is rebound
      kept == ({o.d[a] : a \in Attrs \ {"drift"}} \cup Refs(other)) \cap Cells
      ref == IF r.v = None THEN NoneRef ELSE NthFree(kept, 1)
      o2 == [o EXCEPT !.d["drift"] = ref,
                      !.form = drift_setter_form(o.kind, new_drift, form)]
  IN  /\ Idle
      /\ Exists(t)
      /\ IF r.ok
         THEN /\ heap' = [c \in Cells |-> IF c = ref THEN r.v
                                          ELSE IF c \in kept THEN heap[c] ELSE None]
              /\ IF t = "orig" THEN orig' = o2 /\ UNCHANGED cp
                               ELSE cp' = o2 /\ UNCHANGED orig
         ELSE UNCHANGED <<heap, orig, cp>>
      /\ res' = Outcome("set_drift", t, o.kind, <<new_drift, form>>,
                        IF r.ok THEN Ok(0, <<>>) ELSE r)
      /\ UNCHANGED calls

\* t.drift = new_drift, with a new numpy array new_drift
SetDrift(t, new_drift) == SetDriftAs(t, new_drift, "ndarray")

\* t.drift[:] = value: the drift getter returns the stored array itself,
\* which the caller then changes in place
WriteDrift(t, value) ==
  /\ Idle
  /\ Exists(t)
  /\ Obj(t).d.drift # NoneRef
  /\ heap' = [heap EXCEPT ![Obj(t).d.drift] = value]
  /\ res' = Outcome("write_drift", t, Obj(t).kind, <<value>>, Ok(0, <<>>))
  /\ UNCHANGED <<orig, cp, calls>>

(***************************************************************************)
(* Arguments of the evaluation calls.  A signal vector has one value per   *)
(* operator; a Lindblad collection takes the pair of the Hamiltonian and   *)
(* the dissipator signal vectors.  An operator collection takes a state    *)
(* vector or a matrix whose columns are states; a Lindblad collection      *)
(* takes a density matrix or a stack of density matrices.                  *)
(***************************************************************************)
NumDiss(h, o) == IF o.d.diss \in Cells THEN Len(h[o.d.diss]) ELSE 1
SignalChoices(h, o) ==
  IF o.kind \in LindbladKinds
  THEN SignalPairs(Len(h[o.d.ops]), NumDiss(h, o))
  ELSE SignalsOfLen(Len(h[o.d.ops]))
Columns(vs) == Tab(LAMBDA i: Tab(LAMBDA c: vs[c][i], Len(vs)), Dim)
LindbladStates ==
  {Arr(2, RhoList[i]) : i \in 1..Len(RhoList)}
    \cup {Arr(3, w) : w \in Prefixes(RhoList, MaxBatch)}
OperatorStates ==
  {Arr(1, VecList[i]) : i \in 1..Len(VecList)}
    \cup {Arr(2, Columns(w)) : w \in Prefixes(VecList, MaxBatch)}
StateChoices(o) == IF o.kind \in LindbladKinds THEN LindbladStates ELSE OperatorStates

\* t.num_operators
NumOperators(t) ==
  /\ Idle
  /\ Exists(t)
  /\ res' = Outcome("num_operators", t, Obj(t).kind, <<>>, num_operators(heap, Obj(t)))
  /\ UNCHANGED <<heap, orig, cp, calls>>

\* a variant that scales the stored drift in place
EvaluateGenerator_scaling_drift(t) ==
  /\ Idle
  /\ Exists(t)
  /\ \E signal_values \in SignalChoices(heap, Obj(t)) :
       res' = Outcome("evaluate_generator", t, Obj(t).kind, <<signal_values>>,
                      evaluate_generator(heap, Obj(t), signal_values))
  /\ heap' = IF Obj(t).d.drift \in Cells
             THEN [heap EXCEPT ![Obj(t).d.drift] = MatScale(MinusI, @)]
             ELSE heap
  /\ UNCHANGED <<orig, cp, calls>>

\* t.evaluate_generator(signal_values)
EvaluateGenerator(t) ==
  /\ Idle
  /\ Exists(t)
  /\ \E signal_values \in SignalChoices(heap, Obj(t)) :
       res' = Outcome("evaluate_generator", t, Obj(t).kind, <<signal_values>>,
                      evaluate_generator(heap, Obj(t), signal_values))
  /\ UNCHANGED <<heap, orig, cp, calls>>

\* t.evaluate_hamiltonian(signal_values), a method of the Lindblad classes
EvaluateHamiltonian(t) ==
  /\ Idle
  /\ Exists(t)
  /\ Obj(t).kind \in LindbladKinds
  /\ \E signal_values \in SignalsOfLen(Len(heap[Obj(t).d.ops])) :
       res' = Outcome("evaluate_hamiltonian", t, Obj(t).kind, <<signal_values>>,
                      evaluate_hamiltonian(heap, Obj(t), signal_values))
  /\ UNCHANGED <<heap, orig, cp, calls>>

\* t.evaluate_rhs(signal_values, y)
EvaluateRhs(t) ==
  /\ Idle
  /\ Exists(t)
  /\ \E signal_values \in SignalChoices(heap, Obj(t)), y \in StateChoices(Obj(t)) :
       res' = Outcome("evaluate_rhs", t, Obj(t).kind, <<signal_values, y>>,
                      evaluate_rhs(heap, Obj(t), signal_values, y))
  /\ UNCHANGED <<heap, orig, cp, calls>>

\* t(signal_values) and t(signal_values, y)
Call(t) ==
  /\ Idle
  /\ Exists(t)
  /\ \E signal_values \in SignalChoices(heap, Obj(t)),
        y \in StateChoices(Obj(t)) \cup {YNone} :
       res' = Outcome("call", t, Obj(t).kind, <<signal_values, y>>,
                      BaseOperatorCollection_call(heap, Obj(t), signal_values, y))
  /\ UNCHANGED <<heap, orig, cp, calls>>

\* signal values whose number differs from the number of operators they
\* multiply: a vector for an operator collection, a pair [s_H, s_L] for a
\* Lindblad collection (s_L is read only when dissipators are held)
MismatchedSignals(h, o) ==
  LET k == Len(h[o.d.ops])
  IN  IF o.kind \in LindbladKinds
      THEN {<<Window(SigList, 1, j), Window(SigList, 2, m)>> :
              <<j, m>> \in {jm \in (1..(MaxOps + 1)) \X (1..(MaxDiss + 1)) :
                              \/ jm[1] # k
                              \/ o.d.diss \in Cells /\ jm[2] # Len(h[o.d.diss])}}
      ELSE {Window(SigList, 1, j) : j \in (1..(MaxOps + 1)) \ {k}}

\* a single state and a batch of each shape the class takes
MismatchStates(o) ==
  IF o.kind \in LindbladKinds
  THEN {Arr(2, Rho1), Arr(3, Window(RhoList, 1, MaxBatch))}
  ELSE {Arr(1, Vec1), Arr(2, Columns(Window(VecList, 1, MaxBatch)))}

\* t.evaluate_generator, t.evaluate_hamiltonian or t.evaluate_rhs with
\* mismatched signal values
EvaluateMismatched(t) ==
  /\ Idle
  /\ Exists(t)
  /\ \E signal_values \in MismatchedSignals(heap, Obj(t)), y \in MismatchStates(Obj(t)),
        method \in {"evaluate_generator", "evaluate_hamiltonian", "evaluate_rhs"} :
       /\ method = "evaluate_generator" => Obj(t).kind \notin LindbladKinds
       /\ method = "evaluate_hamiltonian" =>
            /\ Obj(t).kind \in LindbladKinds
            /\ Len(signal_values[1]) # Len(heap[Obj(t).d.ops])
       /\ method # "evaluate_rhs" => y.nd \in {1, 3}    \* y is not an argument
       /\ res' = Outcome("mismatched", t, Obj(t).kind, <<method, signal_values, y>>,
                         CASE method = "evaluate_generator" ->
                                evaluate_generator(heap, Obj(t), signal_values)
                           [] method = "evaluate_hamiltonian" ->
                                evaluate_hamiltonian(heap, Obj(t), signal_values[1])
                           [] method = "evaluate_rhs" ->
                                evaluate_rhs(heap, Obj(t), signal_values, y))
  /\ UNCHANGED <<heap, orig, cp, calls>>

\* stacks of density matrices
Batches == {Window(RhoList, st, n) : st \in 1..Len(RhoList), n \in 1..MaxBatch}

\* unpackage_density_matrices(package_density_matrices(y)) for a stack y
RoundTrip ==
  /\ Idle
  /\ \E batch \in Batches :
       LET y == Arr(3, batch)
           u == unpackage_density_matrices(package_density_matrices(y).m)
       IN  res' = Outcome("round_trip", "orig", "none", <<y>>, Ok(u.nd, u.val))
  /\ UNCHANGED <<heap, orig, cp, calls>>

\* the call returns: the caller takes its outcome
Return ==
  /\ ~Idle
  /\ res' = NoOutcome
  /\ UNCHANGED <<heap, orig, cp, calls>>

\* the caller constructs a collection of any class
ConstructDense ==
  \E kind \in Kinds \ SparseKinds, operators \in OperatorChoices, drift \in DriftChoices,
     dissipator_operators \in DissipatorChoices :
    /\ kind = "DenseOperatorCollection" => dissipator_operators = None
    /\ Construct(kind, operators, drift, dissipator_operators, -1)
ConstructSparse ==
  \E kind \in SparseKinds, operators \in OperatorChoices, drift \in DriftChoices,
     dissipator_operators \in DissipatorChoices, decimals \in 0..MaxDecimals :
    /\ kind = "SparseOperatorCollection" => dissipator_operators = None
    /\ Construct(kind, operators, drift, dissipator_operators, decimals)

\* one collection: construction, drift assignment and evaluation
Next ==
  \/ ConstructDense
  \/ ConstructSparse
  \/ \E new_drift \in AssignedDrifts : SetDrift("orig", new_drift)
  \/ \E value \in DriftChoices \ {None} : WriteDrift("orig", value)
  \/ NumOperators("orig")
  \/ EvaluateGenerator("orig")
  \/ EvaluateHamiltonian("orig")
  \/ EvaluateRhs("orig")
  \/ Call("orig")
  \/ RoundTrip
  \/ Return

Spec == Init /\ [][Next]_vars

\* a collection and its copy: construction, copy, and changes of the drift
\* of either
NextCopy ==
  \/ ConstructDense
  \/ ConstructSparse
  \/ Copy
  \/ \E t \in Targets, new_drift \in DriftChoices : SetDrift(t, new_drift)
  \/ \E t \in Targets, value \in DriftChoices \ {None} : WriteDrift(t, value)
  \/ Return

SpecCopy == Init /\ [][NextCopy]_vars

\* construction and drift assignments with numpy arrays, sparse matrices and
\* None
NextDrift ==
  \/ ConstructDense
  \/ ConstructSparse
  \/ \E new_drift \in DriftChoices \ {None}, form \in Forms :
       SetDriftAs("orig", new_drift, form)
  \/ SetDrift("orig", None)
  \/ Return
SpecDrift == Init /\ [][NextDrift]_vars

(***************************************************************************)
(* Concurrent calls.  Each thread runs evaluate_generator or evaluate_rhs  *)
(* of orig in its own frame: it enters with its arguments, loads           *)
(* self._operators, loads self._drift, computes its result from what it    *)
(* loaded, and returns.  The steps of the threads interleave freely.       *)
(* calls.entered is the argument pair of the call entered last among the   *)
(* calls in progress; no method reads it.                                  *)
(***************************************************************************)
\* the arguments thread th passes: each thread has its own signal values
\* and its own state
ThreadSignals(h, o, th) ==
  IF o.kind \in LindbladKinds
  THEN <<Window(SigList, th, Len(h[o.d.ops])), Window(SigList, th, NumDiss(h, o))>>
  ELSE Window(SigList, th, Len(h[o.d.ops]))
ThreadState(o, th) ==
  IF o.kind \in LindbladKinds THEN Arr(2, RhoList[th]) ELSE Arr(1, VecList[th])

\* a variant that reads the arguments of the call entered last
Arguments_entered_last(c, th) == c.entered

\* the arguments in the frame of thread th
Arguments(c, th) == <<c.frame[th].signal_values, c.frame[th].y>>

\* the method a frame runs, on the attributes the frame has loaded
Run(h, o, f, args) ==
  LET self == [o EXCEPT !.d.ops = f.ops, !.d.drift = f.drift]
  IN  IF f.method = "evaluate_generator" THEN evaluate_generator(h, self, args[1])
      ELSE evaluate_rhs(h, self, args[1], args[2])

\* thread th calls orig.evaluate_generator(signal_values) or
\* orig.evaluate_rhs(signal_values, y)
Enter(th) ==
  /\ Idle
  /\ Exists("orig")
  /\ calls.frame[th].pc = "idle"
  /\ \E method \in {"evaluate_generator", "evaluate_rhs"} :
       LET signal_values == ThreadSignals(heap, orig, th)
           y == ThreadState(orig, th)
       IN  calls' = [calls EXCEPT
                       !.frame[th] = [NoFrame EXCEPT !.pc = "entered", !.method = method,
                                                     !.signal_values = signal_values,
                                                     !.y = y],
                       !.entered = <<signal_values, y>>]
  /\ UNCHANGED <<heap, orig, cp, res>>

\* thread th reads self._operators
LoadOperators(th) ==
  /\ calls.frame[th].pc = "entered"
  /\ calls' = [calls EXCEPT !.frame[th].pc = "operators", !.frame[th].ops = orig.d.ops]
  /\ UNCHANGED <<heap, orig, cp, res>>

\* thread th reads self._drift
LoadDrift(th) ==
  /\ calls.frame[th].pc = "operators"
  /\ calls' = [calls EXCEPT !.frame[th].pc = "drift", !.frame[th].drift = orig.d.drift]
  /\ UNCHANGED <<heap, orig, cp, res>>

\* thread th computes its result
Compute(th) ==
  /\ calls.frame[th].pc = "drift"
  /\ calls' = [calls EXCEPT !.frame[th].pc = "done",
                            !.frame[th].out = Run(heap, orig, calls.frame[th],
                                                  Arguments(calls, th))]
  /\ UNCHANGED <<heap, orig, cp, res>>

\* the call of thread th returns
Leave(th) ==
  /\ calls.frame[th].pc = "done"
  /\ calls' = [frame |-> [calls.frame EXCEPT ![th] = NoFrame],
               entered |-> IF \A other \in Threads \ {th} : calls.frame[other].pc = "idle"
                           THEN <<>> ELSE calls.entered]
  /\ UNCHANGED <<heap, orig, cp, res>>

\* one collection called by two threads; the drift is assigned only while
\* no call is in progress
NextConcurrent ==
  \/ ConstructDense
  \/ ConstructSparse
  \/ AllIdle /\ SetDrift("orig", PauliZ)
  \/ Return
  \/ \E th \in Threads : Enter(th)
  \/ \E th \in Threads : LoadOperators(th)
  \/ \E th \in Threads : LoadDrift(th)
  \/ \E th \in Threads : Compute(th)
  \/ \E th \in Threads : Leave(th)
SpecConcurrent == Init /\ [][NextConcurrent]_vars

(***************************************************************************)
(* PerturbationResults: a data container of an expansion method, a list of *)
(* expansion labels and the array of the expansion terms, one per label.   *)
(* A label is a list of indices or a Multiset of indices.                  *)
(***************************************************************************)
\* Multiset(label): the number of times each index occurs in the list
Multiset(label) ==
  [x \in {label[i] : i \in DOMAIN label} |->
     Cardinality({i \in DOMAIN label : label[i] = x})]
ListLabel(l) == [type |-> "list", val |-> l]
MultisetLabel(l) == [type |-> "Multiset", val |-> Multiset(l)]
\* the Multiset a stored label denotes
to_Multiset(l) == IF l.type = "Multiset" THEN l.val ELSE Multiset(l.val)

\* the labels and terms the containers are made of: [0], [1], [0, 1] with
\* the terms 5, 6, 7, and [0, 0] with the term 8
LabelList == <<(<<0>>), (<<1>>), (<<0, 1>>), (<<0, 0>>)>>
TermList == <<5, 6, 7, 8>>
\* the sub-sequence of xs at the positions P
Selected(xs, P) ==
  LET RECURSIVE Sel(_)
      Sel(n) == IF n = 0 THEN <<>>
                ELSE IF n \in P THEN Append(Sel(n - 1), xs[n]) ELSE Sel(n - 1)
  IN  Sel(Len(xs))
\* PerturbationResults(expansion_method, expansion_labels, expansion_terms):
\* list labels with "dyson_like", Multiset labels with "dyson"
ResultsChoices ==
  {[expansion_method |-> method,
    expansion_labels |-> Selected([i \in DOMAIN LabelList |->
                                    IF method = "dyson" THEN MultisetLabel(LabelList[i])
                                    ELSE ListLabel(LabelList[i])], P),
    expansion_terms |-> Selected(TermList, P)] :
     method \in {"dyson", "dyson_like"}, P \in (SUBSET DOMAIN LabelList) \ {{}}}
\* the labels a caller asks for: lists of one or two indices
RequestedLabels == {<<a>> : a \in 0..2} \cup {<<a, b>> : a, b \in 0..2}

\* a variant that compares which indices occur, not how often
PerturbationResults_get_term_by_support(results, label) ==
  LET idx == {i \in DOMAIN results.expansion_labels :
                DOMAIN to_Multiset(results.expansion_labels[i]) = DOMAIN Multiset(label)}
  IN  IF idx = {} THEN Raise("QiskitError")
      ELSE Ok(0, <<results.expansion_terms[CHOOSE i \in idx : \A j \in idx : i <= j]>>)

\* PerturbationResults.get_term(label): the term at the first position
\* whose label is the requested label as a Multiset
PerturbationResults_get_term(results, label) ==
  LET idx == {i \in DOMAIN results.expansion_labels :
                to_Multiset(results.expansion_labels[i]) = Multiset(label)}
  IN  IF idx = {} THEN Raise("QiskitError")
      ELSE Ok(0, <<results.expansion_terms[CHOOSE i \in idx : \A j \in idx : i <= j]>>)

\* results.get_term(label) on a container the caller has built
GetTerm ==
  /\ Idle
  /\ \E results \in ResultsChoices, label \in RequestedLabels :
       res' = Outcome("get_term", "orig", "PerturbationResults", <<results, label>>,
                      PerturbationResults_get_term(results, label))
  /\ UNCHANGED <<heap, orig, cp, calls>>

NextPerturbation ==
  \/ GetTerm
  \/ Return
SpecPerturbation == Init /\ [][NextPerturbation]_vars

\* construction, then evaluations with mismatched signal values
NextMismatch ==
  \/ ConstructDense
  \/ ConstructSparse
  \/ EvaluateMismatched("orig")
  \/ Return
SpecMismatch == Init /\ [][NextMismatch]_vars

(***************************************************************************)
(* Properties.                                                             *)
(*                                                                         *)
(* While a call's outcome is pending in res, heap and orig are as the call *)
(* found them: an evaluation changes neither, and no other call starts     *)
(* before Return.                                                          *)
(***************************************************************************)
Called(op, kinds) == res.op = op /\ res.kind \in kinds
OperatorKinds == {"DenseOperatorCollection", "SparseOperatorCollection"}
HeldDrift(h, o) == IF o.d.drift = NoneRef THEN ZeroMat ELSE h[o.d.drift]
HeldDiss(h, o) == IF o.d.diss \in Cells THEN h[o.d.diss] ELSE <<>>

\* the matrix sum_j s[j]*G[j] + Gd, entry by entry
GeneratorSum(s, G, Gd) ==
  Mat(LAMBDA i, j: CAdd(SumNums(Tab(LAMBDA l: CMul(s[l], G[l][i][j]), Len(G))), Gd[i][j]))

\* C1 as claimed: evaluate_generator(s) on a dense or sparse operator
\* collection returns sum_j s[j]*G_j + G_d, for a sparse collection with each
\* G_j and the drift G_d rounded to `decimals` places.
C1_GeneratorIsWeightedSum ==
  Called("evaluate_generator", OperatorKinds) =>
    LET s == res.args[1]
        G == heap[orig.d.ops]
        Gd == HeldDrift(heap, orig)
    IN  res.out =
          IF res.kind = "DenseOperatorCollection" THEN Ok(2, GeneratorSum(s, G, Gd))
          ELSE Ok(2, GeneratorSum(s, RoundAll(G, orig.decimals), RoundMat(Gd, orig.decimals)))

\* the product of a generator and a state: a vector, or columns of states
Applied(G, y) == IF y.nd = 1 THEN Ok(1, MatVec(G, y.val)) ELSE Ok(2, MatMul(G, y.val))

\* C2: evaluate_rhs(s, y) on a dense or sparse operator collection equals
\* evaluate_generator(s) applied to y, for y a vector and for y a matrix of
\* column states.
C2_RhsIsGeneratorTimesState ==
  Called("evaluate_rhs", OperatorKinds) =>
    LET gen == evaluate_generator(heap, orig, res.args[1])
    IN  /\ gen.ok
        /\ res.out = Applied(gen.v, res.args[2])

\* a sparse collection of two operators and a non-zero drift evaluated on a
\* single state vector, with a non-zero result
C2_Witness ==
  /\ Called("evaluate_rhs", {"SparseOperatorCollection"})
  /\ res.args[2].nd = 1
  /\ Len(heap[orig.d.ops]) = 2
  /\ heap[orig.d.drift] # ZeroMat
  /\ res.out.ok
  /\ res.out.v # MatVec(ZeroMat, Vec1)

\* C3: calling the collection with (signal_values, y) returns what
\* evaluate_generator(signal_values) returns when y is None and what
\* evaluate_rhs(signal_values, y) returns otherwise; without a state, a
\* non-vectorized Lindblad collection raises the error of evaluate_generator.
C3_CallDispatches ==
  res.op = "call" =>
    /\ res.args[2] = YNone => res.out = evaluate_generator(heap, orig, res.args[1])
    /\ res.args[2] # YNone => res.out = evaluate_rhs(heap, orig, res.args[1], res.args[2])
    /\ res.args[2] = YNone /\ res.kind \in LindbladKinds => res.out = Raise("ValueError")

\* a Lindblad collection called without a state: the unsupported error
C3_Witness ==
  /\ Called("call", LindbladKinds)
  /\ res.args[2] = YNone
  /\ res.out = Raise("ValueError")

\* C4: evaluate_generator on a non-vectorized Lindblad collection, dense or
\* sparse, with or without dissipators, raises the unsupported-operation
\* error and returns no matrix.
C4_LindbladGeneratorUnsupported ==
  Called("evaluate_generator", LindbladKinds) => res.out = Raise("ValueError")

\* evaluate_generator raised on a sparse Lindblad collection with dissipators
C4_Witness ==
  /\ Called("evaluate_generator", {"SparseLindbladCollection"})
  /\ orig.d.diss \in Cells
  /\ ~res.out.ok

\* -i(H rho - rho H) + sum_j gamma[j] (L_j rho L_j^dagger
\*                      - (1/2)(L_j^dagger L_j rho + rho L_j^dagger L_j))
Lindbladian(H, gamma, L, rho) ==
  LET Dissipator(j) ==
        LET Ld == ConjTranspose(L[j])
            LdL == MatMul(Ld, L[j])
        IN  MatScale(gamma[j],
                     MatAdd(MatMul(MatMul(L[j], rho), Ld),
                            MatScale(MinusHalf, MatAdd(MatMul(LdL, rho), MatMul(rho, LdL)))))
      commutator == MatScale(MinusI, MatSub(MatMul(H, rho), MatMul(rho, H)))
  IN  MatAdd(commutator, SumMats(<<ZeroMat>> \o Tab(Dissipator, Len(L))))

\* C5: evaluate_rhs([s_H, s_L], rho) on a dense Lindblad collection holding a
\* drift, for one density matrix rho, returns the Lindbladian of rho with
\* H = sum_j s_H[j]*H_j + drift = evaluate_hamiltonian(s_H), gamma = s_L and
\* the dissipators L_j; without dissipators it returns -i(H rho - rho H).
C5_DenseLindbladRhs ==
  (Called("evaluate_rhs", {"DenseLindbladCollection"}) /\ res.args[2].nd = 2
     /\ orig.d.drift # NoneRef) =>
    LET signal_values == res.args[1]
        H == GeneratorSum(signal_values[1], heap[orig.d.ops], heap[orig.d.drift])
    IN  /\ evaluate_hamiltonian(heap, orig, signal_values[1]) = Ok(2, H)
        /\ res.out = Ok(2, Lindbladian(H, signal_values[2], HeldDiss(heap, orig),
                                       res.args[2].val))

\* one density matrix evaluated with two dissipators and non-zero rates
C5_Witness ==
  /\ Called("evaluate_rhs", {"DenseLindbladCollection"})
  /\ res.args[2] = Arr(2, Rho2)
  /\ orig.d.drift # NoneRef
  /\ Len(HeldDiss(heap, orig)) = 2
  /\ \A j \in 1..2 : res.args[1][2][j] # Zero
  /\ res.out.ok

\* C6 as claimed: evaluate_rhs on a dense Lindblad collection with a stack of
\* density matrices returns the stack whose i-th element is what evaluate_rhs
\* returns for the i-th matrix alone.
C6_BatchIsElementwise ==
  (Called("evaluate_rhs", {"DenseLindbladCollection"}) /\ res.args[2].nd = 3) =>
    LET y == res.args[2].val
        Single(i) == evaluate_rhs(heap, orig, res.args[1], Arr(2, y[i]))
    IN  (\A i \in 1..Len(y) : Single(i).ok) =>
          res.out = Ok(3, Tab(LAMBDA i: Single(i).v, Len(y)))

\* column stacking of a matrix, and its inverse
Vectorize(rho) == Tab(LAMBDA p: rho[((p - 1) % Dim) + 1][((p - 1) \div Dim) + 1], Dim * Dim)
Unvectorize(v) == Mat(LAMBDA i, j: v[(j - 1) * Dim + i])

\* the collection of class kind constructed from the given arguments, in a
\* heap of its own
Twin(kind, operators, drift, dissipator_operators) ==
  LET b == init(kind, operators, drift, dissipator_operators, -1)
      d == Place({}, b.st)
  IN  [ok |-> b.ok,
       obj |-> [kind |-> kind, d |-> d, decimals |-> -1, form |-> init_form(kind, drift)],
       heap |-> Stored([c \in Cells |-> None], d, b.v, {})]

\* C7 as claimed: a DenseVectorizedLindbladCollection constructed from the
\* arguments of a DenseLindbladCollection evaluates, on the column-stacked
\* vector of rho, to the column-stacked vector of what the
\* DenseLindbladCollection returns for rho.
C7_VectorizedAgreesWithDense ==
  (Called("init", {"DenseVectorizedLindbladCollection"}) /\ res.args[2] # None
     /\ res.args[3] # None) =>
    LET dense == Twin("DenseLindbladCollection", res.args[1], res.args[2], res.args[3])
    IN  /\ res.out.ok
        /\ \A signal_values \in SignalPairs(Len(res.args[1]), Len(res.args[3])),
              i \in 1..Len(RhoList) :
             LET vec == evaluate_rhs(heap, orig, signal_values, Arr(1, Vectorize(RhoList[i])))
                 mat == evaluate_rhs(dense.heap, dense.obj, signal_values, Arr(2, RhoList[i]))
             IN  vec.ok /\ mat.ok /\ Unvectorize(vec.v) = mat.v

\* the dense collection that holds what the sparse collection o holds
DenseTwin(h, o) ==
  Twin(IF o.kind = "SparseOperatorCollection" THEN "DenseOperatorCollection"
       ELSE "DenseLindbladCollection",
       h[o.d.ops],
       IF o.d.drift = NoneRef THEN None ELSE h[o.d.drift],
       IF o.d.diss \in Cells THEN h[o.d.diss] ELSE None)

\* C8 as claimed: evaluate_rhs on a sparse collection returns what the dense
\* collection of the same (rounded) operators, drift and dissipators returns
\* for the same signal values and state.
C8_SparseAgreesWithDense ==
  Called("evaluate_rhs", SparseKinds) =>
    LET dense == DenseTwin(heap, orig)
    IN  res.out = evaluate_rhs(dense.heap, dense.obj, res.args[1], res.args[2])

\* C9 as claimed: num_operators is the number k of operators of a dense or
\* sparse operator collection, and the pair (k, m) of the numbers of
\* Hamiltonian operators and of dissipators of a Lindblad collection.
C9_NumOperators ==
  res.op = "num_operators" =>
    LET k == Len(heap[orig.d.ops])
        m == Len(HeldDiss(heap, orig))
    IN  res.out = IF res.kind \in LindbladKinds THEN Ok(0, <<k, m>>) ELSE Ok(0, <<k>>)

\* the arrays object o holds, attribute by attribute
Held(h, o) == [a \in Attrs |-> IF o.d[a] \in Cells THEN <<"array", h[o.d[a]]>>
                               ELSE <<"no array", o.d[a]>>]
\* what object o returns for every call of the argument choices
Evaluations(h, o) ==
  [signal_values \in SignalChoices(h, o), y \in StateChoices(o) \cup {YNone} |->
     BaseOperatorCollection_call(h, o, signal_values, y)]
\* what object o returns, with and without a state, for signal values that
\* are all non-zero
ProbeSignals(h, o) ==
  IF o.kind \in LindbladKinds
  THEN <<Window(SigList, 1, Len(h[o.d.ops])), Window(SigList, 1, NumDiss(h, o))>>
  ELSE Window(SigList, 1, Len(h[o.d.ops]))
ProbeState(o) == IF o.kind \in LindbladKinds THEN Arr(2, Rho2) ELSE Arr(1, Vec2)
Probe(h, o) ==
  <<BaseOperatorCollection_call(h, o, ProbeSignals(h, o), YNone),
    BaseOperatorCollection_call(h, o, ProbeSignals(h, o), ProbeState(o))>>
OtherOf(t) == IF t = "orig" THEN "cp" ELSE "orig"

\* C10: copy() returns a collection that holds what the original holds,
\* returns what the original returns for every call, and shares no array
\* with it: assigning a drift to one of the two, or writing into the drift
\* array of one, leaves what the other holds, and what it returns, as it was.
C10_CopyIsIndependent ==
  /\ [](res.op = "copy" => /\ cp.kind = orig.kind
                           /\ Held(heap, cp) = Held(heap, orig)
                           /\ Evaluations(heap, cp) = Evaluations(heap, orig))
  /\ [](Exists("cp") => Refs(cp) \cap Refs(orig) = {})
  /\ [][\A t \in Targets :
          (res'.op \in {"set_drift", "write_drift"} /\ res'.t = t /\ Exists("cp")) =>
            /\ Held(heap', Obj(OtherOf(t))') = Held(heap, Obj(OtherOf(t)))
            /\ Probe(heap', Obj(OtherOf(t))') = Probe(heap, Obj(OtherOf(t)))]_vars

\* the drift array of the original was overwritten in place after the copy
\* was taken, and the copy holds a different drift
C10_Witness ==
  /\ res.op = "write_drift"
  /\ res.t = "orig"
  /\ Exists("cp")
  /\ cp.d.drift \in Cells
  /\ heap[cp.d.drift] # heap[orig.d.drift]

\* the type in which a collection of class kind stores its matrices
StorageForm(kind) == IF kind \in SparseKinds THEN "csr_matrix" ELSE "ndarray"

\* C11 as claimed: after construction and after any drift assignments with
\* dense or sparse arguments, the drift a collection holds has the storage
\* type of its class: a numpy array for the dense classes, a sparse matrix
\* for the sparse classes.
C11_DriftInStorageForm ==
  (Exists("orig") /\ orig.d.drift # NoneRef) => orig.form = StorageForm(orig.kind)

\* the magnitude of x, rounded to `decimals` places (half to even), is zero:
\* |x| * 10^decimals <= 1/2
RoundsToZero(x, decimals) ==
  4 * (x[1] * x[1] + x[2] * x[2]) * Pow10(decimals) * Pow10(decimals) <= x[3] * x[3]

\* the matrices a collection holds as operators, drift, dissipators and
\* dissipator products
StoredMatrices(h, o) ==
  UNION {{h[o.d[a]][j] : j \in 1..Len(h[o.d[a]])} :
           a \in {b \in {"ops", "diss", "prod"} : o.d[b] \in Cells}}
    \cup (IF o.d.drift \in Cells THEN {h[o.d.drift]} ELSE {})

\* C12 as claimed: after construction and after any drift assignments, a
\* sparse collection stores no entry, in an operator, the drift, a
\* dissipator or a dissipator product, whose magnitude rounds to zero at
\* `decimals` places (the entries a sparse matrix stores are its non-zero
\* entries).
C12_NoStoredEntryRoundsToZero ==
  (Exists("orig") /\ orig.kind \in SparseKinds) =>
    \A M \in StoredMatrices(heap, orig) : \A i, j \in 1..Dim :
      M[i][j] # Zero => ~RoundsToZero(M[i][j], orig.decimals)

\* the collection constructed from the arguments args of a constructor call,
\* with a zero matrix in the place of the drift
ZeroDriftTwin(kind, args) ==
  LET b == init(kind, args[1], ZeroMat, args[3], args[4])
      d == Place({}, b.st)
  IN  [obj |-> [kind |-> kind, d |-> d, decimals |-> args[4],
                form |-> init_form(kind, ZeroMat)],
       heap |-> Stored([c \in Cells |-> None], d, b.v, {})]

\* C13 as claimed: a collection of any class constructed with drift None is
\* constructed, and every evaluation on it returns what the collection
\* constructed with a zero drift matrix returns.
C13_DriftIsOptional ==
  (res.op = "init" /\ res.args[2] = None) =>
    /\ res.out.ok
    /\ LET zero == ZeroDriftTwin(res.kind, res.args)
       IN  Evaluations(heap, orig) = Evaluations(zero.heap, zero.obj)

\* the scenario of C14: dissipator L = [[0,1],[0,0]], no Hamiltonian
\* contribution (signal [0], zero drift), gamma = [1], rho = [[1,0],[0,0]]
C14_Scenario ==
  /\ Called("evaluate_rhs", {"DenseLindbladCollection"})
  /\ orig.d.drift \in Cells
  /\ heap[orig.d.drift] = ZeroMat
  /\ HeldDiss(heap, orig) = <<SigmaMinus>>
  /\ res.args[1] = <<<<Zero>>, <<One>>>>
  /\ res.args[2] = Arr(2, Rho1)

\* [[-1,0],[0,1]]
C14_StatedValue ==
  Mat(LAMBDA i, j: IF i # j THEN Zero ELSE IF i = 1 THEN CNeg(One)
                   ELSE IF i = 2 THEN One ELSE Zero)

\* C14 as claimed: in the scenario evaluate_rhs returns
\* L rho L^dagger - 1/2 {L^dagger L, rho}, and that value is [[-1,0],[0,1]].
C14_AsClaimed ==
  C14_Scenario =>
    /\ res.out = Ok(2, Lindbladian(ZeroMat, <<One>>, <<SigmaMinus>>, Rho1))
    /\ res.out.v = C14_StatedValue

\* C14, amended: in the scenario evaluate_rhs returns
\* L rho L^dagger - 1/2 {L^dagger L, rho}, and that value is the zero matrix
\* (L rho = 0 and rho L^dagger L = 0 for this L and rho).
C14_ScenarioValue ==
  C14_Scenario =>
    /\ res.out = Ok(2, Lindbladian(ZeroMat, <<One>>, <<SigmaMinus>>, Rho1))
    /\ res.out.v = ZeroMat

\* the scenario was evaluated and returned a matrix
C14_Witness == C14_Scenario /\ res.out.ok

\* the system of C15: a DenseOperatorCollection of the one control operator
\* H1 = [[0,1],[1,0]], evaluated with the signal value [0.5]
C15_System ==
  /\ res.op \in {"evaluate_generator", "evaluate_rhs"}
  /\ res.kind = "DenseOperatorCollection"
  /\ heap[orig.d.ops] = <<PauliX>>
  /\ res.args[1] = <<Q(1, 2)>>
  /\ res.op = "evaluate_rhs" => res.args[2] = Arr(1, Vec1)

\* H0 + 0.5 H1: [[1,0.5],[0.5,-1]]
C15_StatedGenerator == MatAdd(PauliZ, MatScale(Q(1, 2), PauliX))
\* what evaluate_generator or evaluate_rhs returned is the value for the
\* generator G
C15_Returned(G) ==
  res.out = IF res.op = "evaluate_generator" THEN Ok(2, G) ELSE Ok(1, MatVec(G, Vec1))

\* C15 as claimed: with drift none, evaluate_generator([0.5]) returns
\* [[1,0.5],[0.5,-1]] and evaluate_rhs([0.5], [1,0]) returns [1,0.5].
C15_AsClaimed ==
  (C15_System /\ orig.d.drift = NoneRef) => C15_Returned(C15_StatedGenerator)

\* C15, amended: the stated values are returned when H0 = [[1,0],[0,-1]] is
\* the drift of the collection; with no drift evaluate_generator([0.5])
\* returns 0.5 H1 = [[0,0.5],[0.5,0]] and evaluate_rhs([0.5], [1,0]) returns
\* [0,0.5].
C15_ScenarioValues ==
  /\ Dim = 2 =>
       /\ C15_StatedGenerator = <<<<One, Q(1, 2)>>, <<Q(1, 2), CNeg(One)>>>>
       /\ MatVec(C15_StatedGenerator, Vec1) = <<One, Q(1, 2)>>
       /\ MatScale(Q(1, 2), PauliX) = <<<<Zero, Q(1, 2)>>, <<Q(1, 2), Zero>>>>
  /\ (C15_System /\ orig.d.drift \in Cells /\ heap[orig.d.drift] = PauliZ) =>
       C15_Returned(C15_StatedGenerator)
  /\ (C15_System /\ orig.d.drift = NoneRef) =>
       C15_Returned(MatScale(Q(1, 2), PauliX))

\* evaluate_rhs([0.5], [1,0]) returned with H0 as the drift
C15_Witness ==
  /\ C15_System
  /\ res.op = "evaluate_rhs"
  /\ orig.d.drift \in Cells
  /\ heap[orig.d.drift] = PauliZ
  /\ res.out.ok

\* C16: for every stack of k density matrices,
\* unpackage_density_matrices(package_density_matrices(stack)) is a stack of
\* k matrices equal to the original, element for element; the packaged
\* array has shape (k,1) and its entry [j,0] is the j-th matrix.
C16_PackageRoundTrip ==
  res.op = "round_trip" =>
    LET y == res.args[1]
        py == package_density_matrices(y)
    IN  /\ py.shape = <<Len(y.val), 1>>
        /\ \A j \in 1..Len(y.val) : py.m[j] = <<y.val[j]>>
        /\ res.out.ok /\ res.out.nd = 3
        /\ Len(res.out.v) = Len(y.val)
        /\ \A j \in 1..Len(y.val) : res.out.v[j] = y.val[j]

\* a stack of two different matrices went through the round trip
C16_Witness ==
  /\ res.op = "round_trip"
  /\ Len(res.args[1].val) >= 2
  /\ res.args[1].val[1] # res.args[1].val[2]
  /\ res.out.ok

\* C17: for every collection type, an evaluation whose number of signal
\* values differs from the number of operators of the set they multiply
\* (signals and operators, Hamiltonian signals and Hamiltonian operators,
\* dissipator signals and dissipator operators) raises and returns nothing.
C17_MismatchFails ==
  res.op = "mismatched" => ~res.out.ok

\* the evaluation an outcome r records, run on heap h and object o
Repeated(h, o, r) ==
  CASE r.op = "evaluate_generator" -> evaluate_generator(h, o, r.args[1])
    [] r.op = "evaluate_hamiltonian" -> evaluate_hamiltonian(h, o, r.args[1])
    [] r.op = "evaluate_rhs" -> evaluate_rhs(h, o, r.args[1], r.args[2])
    [] r.op = "call" -> BaseOperatorCollection_call(h, o, r.args[1], r.args[2])
EvaluationOps == {"evaluate_generator", "evaluate_hamiltonian", "evaluate_rhs", "call"}

\* C18: every evaluate_generator, evaluate_hamiltonian, evaluate_rhs and
\* unified call, whether it returns or raises, leaves the stored operators,
\* drift and dissipator data of the collection unchanged; the same call
\* repeated on the collection afterwards gives the same outcome; and after
\* an evaluate_generator that raised on a Lindblad collection, evaluate_rhs
\* with the same signal values gives for every state what it gave before.
C18_EvaluationsChangeNothing ==
  [][res'.op \in EvaluationOps =>
       LET o == IF res'.t = "orig" THEN orig ELSE cp
           o2 == IF res'.t = "orig" THEN orig' ELSE cp'
       IN  /\ heap' = heap
           /\ orig' = orig
           /\ cp' = cp
           /\ Repeated(heap', o2, res') = res'.out
           /\ (res'.op = "evaluate_generator" /\ res'.kind \in LindbladKinds) =>
                /\ ~res'.out.ok
                /\ \A y \in StateChoices(o) :
                     evaluate_rhs(heap', o2, res'.args[1], y)
                       = evaluate_rhs(heap, o, res'.args[1], y)]_vars

\* evaluate_generator raised on a Lindblad collection with a nonzero drift
\* and dissipators, and evaluate_rhs returns on it
C18_Witness ==
  /\ res.op = "evaluate_generator"
  /\ res.kind \in LindbladKinds
  /\ ~res.out.ok
  /\ orig.d.drift \in Cells /\ heap[orig.d.drift] # ZeroMat
  /\ orig.d.diss \in Cells
  /\ \E signal_values \in SignalChoices(heap, orig), y \in StateChoices(orig) :
       evaluate_rhs(heap, orig, signal_values, y).ok

\* C19: in every interleaving of evaluate_generator and evaluate_rhs calls
\* that two threads make on the same collection with different signal
\* values and states, with no drift assignment while a call is in progress,
\* each call returns what the same call returns when it runs alone.
C19_ConcurrentCallsAreIndependent ==
  \A th \in Threads :
    LET f == calls.frame[th]
    IN  f.pc = "done" =>
          f.out = IF f.method = "evaluate_generator"
                  THEN evaluate_generator(heap, orig, f.signal_values)
                  ELSE evaluate_rhs(heap, orig, f.signal_values, f.y)

\* a call returned a value although the other thread entered a call with
\* other arguments after it and before it computed its result
C19_Witness ==
  \E th \in Threads, other \in Threads :
    /\ th # other
    /\ calls.frame[th].pc = "done"
    /\ calls.frame[th].out.ok
    /\ calls.frame[other].pc \notin {"idle", "entered"}
    /\ calls.entered = Arguments(calls, other)
    /\ Arguments(calls, other) # Arguments(calls, th)

\* vec_commutator(A) under column stacking: the n^2 x n^2 matrix of
\* rho |-> A rho - rho A, with entry [(j-1)n+i, (l-1)n+k] equal to
\* [j=l] A[i,k] - [i=k] A[l,j]
VecCommutator(A) ==
  LET n == Len(A)
      Row(r) == ((r - 1) % n) + 1
      Col(r) == ((r - 1) \div n) + 1
  IN  Tab(LAMBDA r: Tab(LAMBDA c:
            CSub(IF Col(r) = Col(c) THEN A[Row(r)][Row(c)] ELSE Zero,
                 IF Row(r) = Row(c) THEN A[Col(c)][Col(r)] ELSE Zero), n * n), n * n)

\* C20 as claimed: constructing a DenseVectorizedLindbladCollection from
\* Hamiltonian operators, a drift H_d and optional dissipators succeeds, and
\* the drift it stores is -i times the vectorized commutator of H_d.
C20_VectorizedDriftStored ==
  (Called("init", {"DenseVectorizedLindbladCollection"}) /\ res.args[2] # None) =>
    /\ res.out.ok
    /\ orig.kind = "DenseVectorizedLindbladCollection"
    /\ orig.d.drift \in Cells
    /\ heap[orig.d.drift] = Tab(LAMBDA r: Tab(LAMBDA c:
                                  CMul(MinusI, VecCommutator(res.args[2])[r][c]),
                                  Dim * Dim), Dim * Dim)

\* how often index x occurs in a stored label
Occurrences(x, l) ==
  IF l.type = "list" THEN Cardinality({i \in DOMAIN l.val : l.val[i] = x})
  ELSE IF x \in DOMAIN l.val THEN l.val[x] ELSE 0
\* the stored label l holds every index as often as the list label does
SameIndices(l, label) ==
  \A x \in 0..2 : Occurrences(x, l) = Cardinality({i \in DOMAIN label : label[i] = x})
Reversed(label) == [i \in DOMAIN label |-> label[Len(label) + 1 - i]]

VecDissipator(L) ==
  LET n == Len(L)
      P == MatMul(ConjTranspose(L), L)
      Row(r) == ((r - 1) % n) + 1
      Col(r) == ((r - 1) \div n) + 1
  IN  Tab(LAMBDA r: Tab(LAMBDA c:
            CAdd(CMul(L[Row(r)][Row(c)], CConj(L[Col(r)][Col(c)])),
                 CMul(MinusHalf,
                      CAdd(IF Col(r) = Col(c) THEN P[Row(r)][Row(c)] ELSE Zero,
                           IF Row(r) = Row(c) THEN P[Col(c)][Col(r)] ELSE Zero))),
            n * n), n * n)

\* total_ops of lines 307-313: the vectorized Hamiltonian operators,
\* followed by the vectorized dissipators when there are any
TotalOps(hamiltonian_operators, dissipator_operators) ==
  LET vec_ham_ops == Tab(LAMBDA j: MatScale(MinusI, VecCommutator(hamiltonian_operators[j])),
                         Len(hamiltonian_operators))
  IN  IF dissipator_operators = None THEN vec_ham_ops
      ELSE vec_ham_ops \o Tab(LAMBDA j: VecDissipator(dissipator_operators[j]),
                              Len(dissipator_operators))

\* orig = object.__new__(DenseVectorizedLindbladCollection), then
\* DenseOperatorCollection.__init__(orig, total_ops, drift=vec_drift)
ConstructVectorized ==
  \E hamiltonian_operators \in OperatorChoices, drift \in DriftChoices,
     dissipator_operators \in DissipatorChoices :
    LET b == DenseOperatorCollection_init(
               TotalOps(hamiltonian_operators, dissipator_operators),
               IF drift = None THEN None ELSE MatScale(MinusI, VecCommutator(drift)))
        d == Place({}, b.st)
    IN  /\ Idle
        /\ orig = NoObj
        /\ orig' = [kind |-> "DenseVectorizedLindbladCollection", d |-> d, decimals |-> -1,
                    form |-> init_form("DenseVectorizedLindbladCollection", drift)]
        /\ heap' = Stored(heap, d, b.v, {})
        /\ res' = Outcome("new", "orig", "DenseVectorizedLindbladCollection",
                          <<hamiltonian_operators, drift, dissipator_operators>>, Ok(0, <<>>))
        /\ UNCHANGED <<cp, calls>>

\* orig.evaluate_generator([s_H, s_L]) and orig.evaluate_rhs([s_H, s_L], y)
\* for the k Hamiltonian and m dissipator operators orig was made from and a
\* column-stacked density matrix y
EvaluateVectorized ==
  /\ Idle
  /\ Exists("orig")
  /\ \E hamiltonian_operators \in OperatorChoices,
        dissipator_operators \in DissipatorChoices :
       /\ heap[orig.d.ops] = TotalOps(hamiltonian_operators, dissipator_operators)
       /\ \E signal_values \in SignalPairs(Len(hamiltonian_operators),
                                           Len(dissipator_operators)),
             y \in {YNone} \cup {Arr(1, Vectorize(RhoList[i])) : i \in 1..Len(RhoList)} :
            res' = IF y = YNone
                   THEN Outcome("evaluate_generator", "orig", orig.kind, <<signal_values>>,
                                evaluate_generator(heap, orig, signal_values))
                   ELSE Outcome("evaluate_rhs", "orig", orig.kind, <<signal_values, y>>,
                                evaluate_rhs(heap, orig, signal_values, y))
  /\ UNCHANGED <<heap, orig, cp, calls>>

NextVectorized ==
  \/ ConstructVectorized
  \/ EvaluateVectorized
  \/ Return
SpecVectorized == Init /\ [][NextVectorized]_vars

WriteDissipators ==
  /\ Idle
  /\ Exists("orig")
  /\ orig.kind \in LindbladKinds
  /\ orig.d.diss \in Cells
  /\ LET value == Window(DissList, 2, Len(heap[orig.d.diss]))
     IN  /\ heap' = IF orig.kind = "DenseLindbladCollection"
                    THEN [heap EXCEPT ![orig.d.diss] = value]
                    ELSE heap
         /\ res' = Outcome("write_dissipators", "orig", orig.kind, <<value>>, Ok(0, <<>>))
  /\ UNCHANGED <<orig, cp, calls>>

\* a collection, its copy, evaluations, drift assignments and writes into
\* the dissipator array the caller passed
NextOwnership ==
  \/ ConstructDense
  \/ ConstructSparse
  \/ Copy
  \/ SetDrift("orig", PauliZ)
  \/ EvaluateRhs("orig")
  \/ WriteDissipators
  \/ Return
SpecOwnership == Init /\ [][NextOwnership]_vars

\* C23 as claimed: in every reachable state a Lindblad collection with
\* dissipators, dense or sparse, original or copy, holds as cached
\* conjugate-transposes and cached products the matrices L_j^dagger and
\* L_j^dagger L_j of the dissipator operators it holds at that moment, also
\* after the caller has written into the arrays it passed to the constructor.
C23_CachesMatchDissipators ==
  \A t \in Targets :
    (Exists(t) /\ Obj(t).kind \in LindbladKinds /\ Obj(t).d.diss \in Cells) =>
      LET L == heap[Obj(t).d.diss]
      IN  /\ Obj(t).d.conj \in Cells /\ Obj(t).d.prod \in Cells
          /\ Len(heap[Obj(t).d.conj]) = Len(L) /\ Len(heap[Obj(t).d.prod]) = Len(L)
          /\ \A j \in 1..Len(L) :
               /\ heap[Obj(t).d.conj][j] = ConjTranspose(L[j])
               /\ heap[Obj(t).d.prod][j] = MatMul(ConjTranspose(L[j]), L[j])

====
